---- MODULE Spec2Model ----
(***************************************************************************)
(* Model of the virtual-host-gatherer core (lib/gatherer/gatherer.py) and  *)
(* of the two capability providers shipped with it (NutanixAHV, SUSECloud).*)
(* One behaviour is one invocation of Gatherer.main(): provider discovery, *)
(* the dispatch loop over the input nodes, and the emission of the report  *)
(* (or of the module listing).                                             *)
(*                                                                         *)
(* Strings whose characters the code inspects (dictionary keys, node ids)  *)
(* are sequences of one-character strings; all other strings are atoms.    *)
(***************************************************************************)
EXTENDS Integers, Sequences, FiniteSets, TLC

\* Longest input (number of node descriptors in the input file).
MaxNodes == 3

-----------------------------------------------------------------------------
(* Character strings *)

\* The characters used, in ASCII order ("-" < digits < upper < lower).
Alphabet ==
  << "-", "1", "2", "3", "4", "5", "6", "7", "8", "9",
     "A", "D", "P", "S", "W",
     "a", "b", "c", "d", "e", "h", "i", "l", "m", "n", "o", "p", "r", "s",
     "t", "u", "w" >>

\* ord(c), up to an order-preserving renumbering.
Ord(c) == CHOOSE i \in 1..Len(Alphabet) : Alphabet[i] = c

\* str.lower() on one character.
LowerChar(c) ==
  CASE c = "A" -> "a"
    [] c = "D" -> "d"
    [] c = "P" -> "p"
    [] c = "S" -> "s"
    [] c = "W" -> "w"
    [] OTHER -> c

\* str.lower()
lower(s) == [i \in 1..Len(s) |-> LowerChar(s[i])]

\* str.startswith(prefix)
startswith(s, prefix) ==
  /\ Len(s) >= Len(prefix)
  /\ \A i \in 1..Len(prefix) : s[i] = prefix[i]

\* Python's str.__lt__: lexicographic order by code point.
RECURSIVE StrLess(_, _)
StrLess(s, t) ==
  IF t = << >> THEN FALSE
  ELSE IF s = << >> THEN TRUE
  ELSE IF s[1] # t[1] THEN Ord(s[1]) < Ord(t[1])
  ELSE StrLess(Tail(s), Tail(t))

\* sorted(keys): the keys of a finite set of strings in ascending order.
RECURSIVE SortKeys(_)
SortKeys(S) ==
  IF S = {} THEN << >>
  ELSE LET least == CHOOSE k \in S : \A other \in S \ {k} : StrLess(k, other)
       IN  <<least>> \o SortKeys(S \ {least})

kModule   == << "m", "o", "d", "u", "l", "e" >>
kId       == << "i", "d" >>
kHostname == << "h", "o", "s", "t", "n", "a", "m", "e" >>
kPort     == << "p", "o", "r", "t" >>
kUsername == << "u", "s", "e", "r", "n", "a", "m", "e" >>
kPassword == << "p", "a", "s", "s", "w", "o", "r", "d" >>
kProtocol == << "p", "r", "o", "t", "o", "c", "o", "l" >>
kTenant   == << "t", "e", "n", "a", "n", "t" >>
\* Further keys an input file may carry.
kPASSWD   == << "P", "A", "S", "S", "W", "D" >>
kPass     == << "P", "a", "s", "s" >>
kPas      == << "p", "a", "s" >>
kCompass  == << "c", "o", "m", "p", "a", "s", "s" >>

-----------------------------------------------------------------------------
(* Ordered mappings (collections.OrderedDict) as sequences of <<key, value>> *)

ODKeys(od) == { od[i][1] : i \in 1..Len(od) }

ODGet(od, key) == od[CHOOSE i \in 1..Len(od) : od[i][1] = key][2]

\* OrderedDict.__setitem__: an existing key keeps its place and takes the new
\* value, a new key is appended.
ODSet(od, key, value) ==
  IF key \in ODKeys(od)
  THEN [i \in 1..Len(od) |-> IF od[i][1] = key THEN <<key, value>> ELSE od[i]]
  ELSE Append(od, <<key, value>>)

\* OrderedDict(pairs)
RECURSIVE ODFromPairs(_)
ODFromPairs(pairs) ==
  IF pairs = << >> THEN << >>
  ELSE LET n == Len(pairs)
       IN  ODSet(ODFromPairs(SubSeq(pairs, 1, n - 1)), pairs[n][1], pairs[n][2])

-----------------------------------------------------------------------------
(* The Redactor *)

PASS == << "p", "a", "s", "s" >>

\* The redaction done on the caller's dictionary itself (ret = indict).
_remove_passwords_in_place(indict) ==
  LET ret == [key \in DOMAIN indict |->
                IF startswith(lower(key), PASS) THEN "**secret**" ELSE indict[key]]
  IN  [ret |-> ret, indict |-> ret]

\* Gatherer._remove_passwords(indict).  Python passes the dictionary by
\* reference, so the value is a pair: ret, the dictionary returned, and indict,
\* the caller's dictionary as it is after the call.
_remove_passwords(indict) ==
  LET copy == indict
      ret  == [key \in DOMAIN copy |->
                 IF startswith(lower(key), PASS) THEN "**secret**" ELSE copy[key]]
  IN  [ret |-> ret, indict |-> indict]

-----------------------------------------------------------------------------
(* Capability providers *)

NutanixAHV == "NutanixAHV"
SUSECloud  == "SUSECloud"
\* A provider installed beside the two above: any other file of the modules
\* directory that implements the Capability Contract.
Acme       == "Acme"

\* The schemas a third-party provider's DEFAULT_PARAMETERS may be.
AcmeSchemas ==
  { << <<kHostname, "">> >>,
    << <<kModule, "Other">>, <<kHostname, "">> >> }

NutanixAHV_DEFAULT_PARAMETERS ==
  << <<kHostname, "">>, <<kPort, "9440">>, <<kUsername, "">>, <<kPassword, "">> >>

SUSECloud_DEFAULT_PARAMETERS ==
  << <<kHostname, "">>, <<kPort, "5000">>, <<kUsername, "">>, <<kPassword, "">>,
     <<kProtocol, "https">>, <<kTenant, "openstack">> >>

\* class_(): the instance as its constructor leaves it.  DEFAULT_PARAMETERS is
\* the class attribute, the other fields are set to None.
NewInstance(name, schema) ==
  [ DEFAULT_PARAMETERS |-> schema,
    host |-> "None", port |-> "None", user |-> "None", password |-> "None",
    tenant |-> "None" ]

\* WorkerInterface._validate_parameters(node): every key of DEFAULT_PARAMETERS
\* is a key of the node.  TRUE when the node passes.
_validate_parameters(self, node) ==
  \A key \in ODKeys(self.DEFAULT_PARAMETERS) : key \in DOMAIN node

\* The AttributeError _validate_parameters raises.
MissingParameter == "AttributeError"

\* dict.get(key, default)
Get(node, key, default) == IF key \in DOMAIN node THEN node[key] ELSE default

\* set_node(node) of provider `name`: exc is the exception it raises ("none":
\* it returns), self the instance afterwards, errors what it logs at error level.
set_node(name, self, node) ==
  IF ~_validate_parameters(self, node)
  THEN [exc |-> MissingParameter, self |-> self, errors |-> <<MissingParameter>>]
  ELSE [exc |-> "none", errors |-> << >>,
        self |->
          CASE name = NutanixAHV ->
                 [self EXCEPT !.host = node[kHostname],
                              !.port = Get(node, kPort, "9440"),
                              !.user = node[kUsername],
                              !.password = node[kPassword]]
            [] name = SUSECloud ->
                 [self EXCEPT !.host = node[kHostname],
                              !.port = Get(node, kPort, "5000"),
                              !.user = node[kUsername],
                              !.password = node[kPassword],
                              !.tenant = node[kTenant]]
            [] OTHER ->
                 [self EXCEPT !.host = node[kHostname]] ]

\* The hosts the backend of every node reports.
BackendHosts == {"host1"}
DetachedVMs  == "Nutanix-AHV-DetachedVMs"

\* Where a collection may fail: opening the connection (nothing gathered yet),
\* reading the VMs of a host already recorded, or nowhere.
FailurePoints == {"connect", "vms", "none"}

\* NutanixAHV.run(): the whole query runs inside try/except Exception, which
\* logs the error and falls through to `return output`.
NutanixAHV_run(failure) ==
  CASE failure = "connect" -> [exc |-> "none", output |-> {},           errors |-> <<"URLError">>]
    [] failure = "vms"     -> [exc |-> "none", output |-> BackendHosts, errors |-> <<"KeyError">>]
    [] OTHER               -> [exc |-> "none", output |-> BackendHosts \cup {DetachedVMs},
                               errors |-> << >>]

\* SUSECloud.run(): no handler surrounds the client calls, so whatever they
\* raise leaves run() and the hosts gathered so far are lost with it.
SUSECloud_run(failure) ==
  CASE failure = "connect" -> [exc |-> "ClientException", output |-> {}, errors |-> << >>]
    [] failure = "vms"     -> [exc |-> "ClientException", output |-> {}, errors |-> << >>]
    [] OTHER               -> [exc |-> "none", output |-> BackendHosts, errors |-> << >>]

\* run() of a provider that keeps the Capability Contract.
Acme_run(failure) ==
  CASE failure = "connect" -> [exc |-> "none", output |-> {},           errors |-> <<"Error">>]
    [] failure = "vms"     -> [exc |-> "none", output |-> BackendHosts, errors |-> <<"Error">>]
    [] OTHER               -> [exc |-> "none", output |-> BackendHosts, errors |-> << >>]

run(name, failure) ==
  CASE name = NutanixAHV -> NutanixAHV_run(failure)
    [] name = SUSECloud  -> SUSECloud_run(failure)
    [] OTHER             -> Acme_run(failure)

-----------------------------------------------------------------------------
(* Inputs *)

idA == << "a" >>
idB == << "b" >>

nNoModule ==
  (kId :> idA) @@ (kHostname :> "h0") @@ (kPASSWD :> "pw0")
nGhost ==
  (kModule :> "Ghost") @@ (kId :> idA)
nNutA ==
  (kModule :> NutanixAHV) @@ (kId :> idA) @@ (kHostname :> "h1") @@ (kPort :> "9440")
    @@ (kUsername :> "admin") @@ (kPassword :> "pw1")
nNutAnon ==
  (kModule :> NutanixAHV) @@ (kHostname :> "h2") @@ (kPort :> "9440")
    @@ (kUsername :> "admin") @@ (kPassword :> "pw2") @@ (kPass :> "pw3")
    @@ (kPas :> "x") @@ (kCompass :> "north")
nNutBad ==
  (kModule :> NutanixAHV) @@ (kId :> idB) @@ (kHostname :> "h3") @@ (kPort :> "9440")
    @@ (kUsername :> "admin")
nSuseA ==
  (kModule :> SUSECloud) @@ (kId :> idA) @@ (kHostname :> "h4") @@ (kPort :> "5000")
    @@ (kUsername :> "admin") @@ (kPassword :> "pw4") @@ (kProtocol :> "https")
    @@ (kTenant :> "openstack")
\* The node descriptors an input file is made of.
NodePool == {nNoModule, nGhost, nNutA, nNutAnon, nNutBad, nSuseA}

\* Every input file of at most MaxNodes descriptors.
RECURSIVE InputsOfLength(_)
InputsOfLength(n) ==
  IF n = 0 THEN { << >> }
  ELSE { Append(nodes, node) : nodes \in InputsOfLength(n - 1), node \in NodePool }

Inputs == UNION { InputsOfLength(n) : n \in 0..MaxNodes }

\* The files os.listdir finds in the modules directory, in the order it
\* returns them.
Candidates == << SUSECloud, Acme, NutanixAHV >>

\* What importing and instantiating a candidate may do: "good" registers,
\* "invalid" has valid() return False (SUSECloud without novaclient),
\* "nonconforming" is no subclass of WorkerInterface, and the others are the
\* exception the candidate's own code raises while it loads.
LoadExceptions == {"ImportError", "AttributeError", "SyntaxError"}

CandidateKinds(name) ==
  CASE name = NutanixAHV -> {"good"}
    [] name = SUSECloud  -> {"good", "invalid"}
    [] OTHER -> {"good", "nonconforming"} \cup LoadExceptions

Schemas(name) ==
  CASE name = NutanixAHV -> {NutanixAHV_DEFAULT_PARAMETERS}
    [] name = SUSECloud  -> {SUSECloud_DEFAULT_PARAMETERS}
    [] OTHER -> AcmeSchemas

\* The n-th identifier uuid.uuid4() returns in this process.  The identifiers
\* are random 122-bit values; the model takes them distinct from each other and
\* from every id an input file spells out, and names them in the order they are
\* generated.
Digits == << "1", "2", "3", "4", "5", "6", "7", "8", "9" >>
Uuid(n) == << "u", "-", Digits[n] >>

\* str(uuid.uuid4()), `generated` being the identifiers returned so far.
uuid4(generated) == Uuid(Cardinality(generated) + 1)

-----------------------------------------------------------------------------
(* State *)

VARIABLES
  options,    \* the parsed command line: verbose, list_modules, infile, outfile
  pc,         \* where main() is
  exc,        \* the exception in flight ("none": none)
  modules,    \* self.modules: name -> instance, in registration order
  ldx,        \* _load_modules: index of the next candidate
  loaded,     \* what each candidate examined so far did while loading
  mgm_nodes,  \* the input as read
  idx,        \* _run: index of the next node
  output,     \* _run: the report, node id -> hosts
  generated,  \* the identifiers uuid4 has returned
  calls,      \* the calls made to providers, in order
  stored,     \* the assignments made to output, in order
  log,        \* the records the handlers received
  file,       \* the content of the destination path
  stdout      \* what was printed

vars == << options, pc, exc, modules, ldx, loaded, mgm_nodes, idx, output,
           generated, calls, stored, log, file, stdout >>

\* The destination path's content before the run.
OldContent == << [t |-> "old", key |-> << >>, val |-> {}] >>

\* logging: the numeric order of the levels.
LevelNo(level) ==
  CASE level = "debug" -> 1
    [] level = "info" -> 2
    [] level = "warning" -> 3
    [] OTHER -> 4

\* The root logger's level: WARNING, INFO at -v, DEBUG from -vv on.
Threshold(verbose) == IF verbose >= 2 THEN 1 ELSE IF verbose = 1 THEN 2 ELSE 3

Rec(level, msg, arg) == [level |-> level, msg |-> msg, arg |-> arg]

\* The log after `records` were handed to the logger.
Logged(records) ==
  log \o SelectSeq(records, LAMBDA r : LevelNo(r.level) >= Threshold(options.verbose))

ErrorRecs(errors) == [i \in 1..Len(errors) |-> Rec("error", "provider", errors[i])]

\* Whether an exception raised now is raised under main()'s try: only the call
\* of _run() is, the listing branch is not.
InTry == ~options.list_modules

\* The log after `records` were logged and exception e then left main(): the
\* `except Exception` around _run() logs e at error level and re-raises it.
Raised(records, e) ==
  Logged(records \o (IF InTry THEN << Rec("error", "exception", e) >> ELSE << >>))

Init ==
  /\ options \in [ verbose : 0..2, list_modules : BOOLEAN, infile : BOOLEAN,
                   outfile : BOOLEAN ]
  /\ pc = "main"
  /\ exc = "none"
  /\ modules = << >>
  /\ ldx = 0
  /\ loaded = << >>
  /\ mgm_nodes = << >>
  /\ idx = 0
  /\ output = << >>
  /\ generated = {}
  /\ calls = << >>
  /\ stored = << >>
  /\ log = << >>
  /\ file = OldContent
  /\ stdout = << >>

-----------------------------------------------------------------------------
(* Serialization *)

Chunk(t, key, val) == [t |-> t, key |-> key, val |-> val]

\* json.dumps(mapping, indent=4, separators=(",", ": ")) as the chunks the
\* encoder yields; `items` are the mapping's items in the order they are
\* written.
Encode(items) ==
  IF items = << >> THEN << Chunk("{}", << >>, {}) >>
  ELSE LET body[i \in 0..Len(items)] ==
             IF i = 0 THEN << >>
             ELSE Append(body[i - 1], Chunk("item", items[i][1], items[i][2]))
       IN  << Chunk("{", << >>, {}) >> \o body[Len(items)] \o << Chunk("}", << >>, {}) >>

\* The report's items with sort_keys=True.
SortedItems(report) ==
  LET keys == SortKeys(DOMAIN report)
  IN  [i \in 1..Len(keys) |-> << keys[i], report[keys[i]] >>]

\* print(text): the text and the line end print appends.
Printed(text) == text \o << Chunk("\n", << >>, {}) >>

\* with open(outfile, "w") as f: json.dump(obj, f, ...).  open() fails and
\* leaves the path alone, or truncates it; json.dump then writes the chunks one
\* by one and may fail after `written` of them (the encoder raising on a value
\* or on keys it cannot order, or the write itself failing); leaving the with
\* block closes the file with what was written.
write_outfile(old, text, opened, written) ==
  IF ~opened THEN [file |-> old, exc |-> "OSError"]
  ELSE IF written < Len(text) THEN [file |-> SubSeq(text, 1, written), exc |-> "DumpError"]
  ELSE [file |-> text, exc |-> "none"]

-----------------------------------------------------------------------------
(* Gatherer.main *)

\* main() up to the call of _load_modules(): listing mode calls
\* list_modules(), collection mode logs and calls _run(); both find
\* self.modules empty and start the discovery.
Main ==
  /\ pc = "main"
  /\ IF options.list_modules
     THEN /\ log' = Logged(<< Rec("info", "module path", "") >>)
          /\ pc' = "load"
          /\ ldx' = 1
     ELSE IF ~options.infile
     THEN /\ log' = Logged(<< Rec("error", "Input file was not specified", "") >>)
          /\ pc' = "exit_ok"
          /\ ldx' = ldx
     ELSE /\ log' = Logged(<< Rec("warning", "Scanning began", ""),
                              Rec("info", "module path", "") >>)
          /\ pc' = "load"
          /\ ldx' = 1
  /\ UNCHANGED << options, exc, modules, loaded, mgm_nodes, idx, output, generated,
                  calls, stored, file, stdout >>

\* The pass that handles ImportError like the other exceptions it catches.
_load_modules_body_lenient(name, kind) ==
  LET loading == Rec("debug", "Loading module", name)
      intro   == Rec("debug", "Introspection", name)
  IN  CASE kind = "good" ->
             [registered |-> TRUE, exc |-> "none", records |-> << loading, intro >>]
        [] kind \in {"SyntaxError"} ->
             [registered |-> FALSE, exc |-> kind, records |-> << loading >>]
        [] OTHER ->
             [registered |-> FALSE, exc |-> "none",
              records |-> << loading, Rec("error", "is broken, skipping.", name) >>]

\* One pass of the loop of _load_modules over candidate `name` that behaves as
\* `kind`: whether it is registered, the exception that leaves the loop
\* ("none": none) and the records logged.
_load_modules_body(name, kind) ==
  LET loading == Rec("debug", "Loading module", name)
      intro   == Rec("debug", "Introspection", name)
      broken  == << Rec("error", "is broken, skipping.", name),
                    Rec("debug", "Exception", kind) >>
  IN  CASE kind = "good" ->
             [registered |-> TRUE, exc |-> "none", records |-> << loading, intro >>]
        [] kind = "invalid" ->
             [registered |-> FALSE, exc |-> "none",
              records |-> << loading, intro,
                             Rec("error", "is broken, import aborted.", name) >>]
        [] kind = "nonconforming" ->
             [registered |-> FALSE, exc |-> "none",
              records |-> << loading, intro,
                             Rec("error", "is not a gatherer module, skipping.", name) >>]
        [] kind \in {"TypeError", "AttributeError", "NotImplementedError"} ->
             [registered |-> FALSE, exc |-> "none", records |-> << loading >> \o broken]
        [] kind = "ImportError" ->
             [registered |-> FALSE, exc |-> kind,
              records |-> << loading, Rec("debug", "was not loaded.", name) >>]
        [] OTHER ->
             [registered |-> FALSE, exc |-> kind, records |-> << loading >>]

LoadModule ==
  /\ pc = "load"
  /\ ldx \in 1..Len(Candidates)
  /\ \E kind \in CandidateKinds(Candidates[ldx]), schema \in Schemas(Candidates[ldx]) :
       LET name == Candidates[ldx]
           res  == _load_modules_body(name, kind)
       IN  /\ kind # "good" => schema = CHOOSE sc \in Schemas(name) : TRUE
           /\ loaded' = Append(loaded, [name |-> name, kind |-> kind])
           /\ log' = IF res.exc # "none" THEN Raised(res.records, res.exc)
                     ELSE Logged(res.records)
           /\ modules' = IF res.registered
                         THEN ODSet(modules, name, NewInstance(name, schema))
                         ELSE modules
           /\ exc' = res.exc
           /\ ldx' = ldx + 1
           /\ pc' = IF res.exc # "none" THEN "exit_fail"
                    ELSE IF ldx < Len(Candidates) THEN "load"
                    ELSE IF options.list_modules THEN "list"
                    ELSE "read"
  /\ UNCHANGED << options, mgm_nodes, idx, output, generated, calls, stored, file,
                  stdout >>

-----------------------------------------------------------------------------
(* Gatherer._run *)

\* json.load of the input: any input file, or a failure to open or parse it.
ReadInput ==
  /\ pc = "read"
  /\ \/ \E nodes \in Inputs :
          /\ mgm_nodes' = nodes
          /\ idx' = 1
          /\ pc' = "loop"
          /\ UNCHANGED << exc, log >>
     \/ /\ exc' = "JSONDecodeError"
        /\ log' = Raised(<< >>, "JSONDecodeError")
        /\ pc' = "exit_fail"
        /\ UNCHANGED << mgm_nodes, idx >>
  /\ UNCHANGED << options, modules, ldx, loaded, output, generated, calls, stored,
                  file, stdout >>

\* The identifier generated once and used for every node that has none.
output_key_shared(node, fresh) == Get(node, kId, Uuid(1))

\* node.get("id", str(uuid.uuid4())), `fresh` being what uuid4 returned.
output_key(node, fresh) == Get(node, kId, fresh)

\* The assignment that keeps the entry a key already has.
store_if_absent(report, key, value) ==
  IF key \in DOMAIN report THEN report ELSE (key :> value) @@ report

\* output[key] = value
store(report, key, value) == (key :> value) @@ report

\* The error logged for a node that is skipped, without the module's name.
skip_records_unnamed(node) ==
  << Rec("error", "Skipping unsupported module", "") >>

\* The error logged for a node that is skipped: its `module` key is absent,
\* or names no registered provider.
skip_records(node) ==
  IF kModule \notin DOMAIN node
  THEN << Rec("error", "Skipping undefined module in the input file.", "") >>
  ELSE << Rec("error", "Skipping unsupported module", node[kModule]) >>

SetNodeCall(i, name, node) ==
  [op |-> "set_node", idx |-> i, name |-> name, node |-> node, exc |-> "none",
   output |-> {}]
RunCall(i, name, res) ==
  [op |-> "run", idx |-> i, name |-> name, node |-> << >>, exc |-> res.exc,
   output |-> res.output]

\* One pass of the loop of _run, over mgm_nodes[idx].
ProcessNode ==
  /\ pc = "loop"
  /\ idx \in 1..Len(mgm_nodes)
  /\ LET redacted == _remove_passwords(mgm_nodes[idx])
         dump     == IF options.verbose >= 2
                     THEN << Rec("debug", "Input Node", redacted.ret) >>
                     ELSE << >>
         node     == IF options.verbose >= 2 THEN redacted.indict ELSE mgm_nodes[idx]
     IN  IF kModule \notin DOMAIN node
         THEN /\ log' = Logged(dump \o skip_records(node))
              /\ idx' = idx + 1
              /\ UNCHANGED << pc, exc, modules, output, generated, calls, stored >>
         ELSE IF node[kModule] \notin ODKeys(modules)
         THEN /\ log' = Logged(dump \o skip_records(node))
              /\ idx' = idx + 1
              /\ UNCHANGED << pc, exc, modules, output, generated, calls, stored >>
         ELSE LET modname == node[kModule]
                  worker  == ODGet(modules, modname)
                  sn      == set_node(modname, worker, node)
              IN  IF sn.exc # "none"
                  THEN /\ calls' = Append(calls, [SetNodeCall(idx, modname, node)
                                                    EXCEPT !.exc = sn.exc])
                       /\ log' = Raised(dump \o ErrorRecs(sn.errors), sn.exc)
                       /\ exc' = sn.exc
                       /\ pc' = "exit_fail"
                       /\ UNCHANGED << idx, modules, output, generated, stored >>
                  ELSE \E failure \in FailurePoints :
                         LET res  == run(modname, failure)
                             recs == dump \o << Rec("info", "Connect to", modname) >>
                                       \o ErrorRecs(res.errors)
                         IN  /\ modules' = ODSet(modules, modname, sn.self)
                             /\ calls' = calls \o << SetNodeCall(idx, modname, node),
                                                     RunCall(idx, modname, res) >>
                             /\ log' = IF res.exc # "none" THEN Raised(recs, res.exc)
                                       ELSE Logged(recs)
                             /\ IF res.exc # "none"
                                THEN /\ exc' = res.exc
                                     /\ pc' = "exit_fail"
                                     /\ UNCHANGED << idx, output, generated, stored >>
                                ELSE LET fresh == uuid4(generated)
                                         key   == output_key(node, fresh)
                                     IN  /\ generated' = generated \cup {fresh}
                                         /\ output' = store(output, key, res.output)
                                         /\ stored' = Append(stored,
                                                             [idx |-> idx, key |-> key])
                                         /\ idx' = idx + 1
                                         /\ UNCHANGED << pc, exc >>
  /\ UNCHANGED << options, ldx, loaded, mgm_nodes, file, stdout >>

\* _run after the loop: the debug dump of the report, then the report written
\* to the destination path or printed; back in main(), "Scanning finished".
EmitReport ==
  /\ pc = "loop"
  /\ idx = Len(mgm_nodes) + 1
  /\ LET text == Encode(SortedItems(output))
         dump == IF options.verbose >= 2
                 THEN << Rec("debug", "Output", text) >>
                 ELSE << >>
         done == << Rec("warning", "Scanning finished", "") >>
     IN  IF options.outfile
         THEN \E opened \in BOOLEAN, written \in 0..Len(text) :
                LET w == write_outfile(file, text, opened, written)
                IN  /\ ~opened => written = 0
                    /\ file' = w.file
                    /\ exc' = w.exc
                    /\ pc' = IF w.exc = "none" THEN "exit_ok" ELSE "exit_fail"
                    /\ log' = IF w.exc = "none" THEN Logged(dump \o done)
                              ELSE Raised(dump, w.exc)
                    /\ stdout' = stdout
         ELSE /\ stdout' = stdout \o Printed(text)
              /\ log' = Logged(dump \o done)
              /\ pc' = "exit_ok"
              /\ UNCHANGED << exc, file >>
  /\ UNCHANGED << options, modules, ldx, loaded, mgm_nodes, idx, output, generated,
                  calls, stored >>

-----------------------------------------------------------------------------
(* Listing mode *)

\* inst.parameters()
parameters(inst) == inst.DEFAULT_PARAMETERS

\* The loop of list_modules: params[modname] =
\*   OrderedDict(list(moditem.items()) + list(inst.parameters().items()))
list_modules(registry) ==
  LET params[i \in 0..Len(registry)] ==
        IF i = 0 THEN << >>
        ELSE LET modname == registry[i][1]
                 inst    == registry[i][2]
                 moditem == ODFromPairs(<< <<kModule, modname>> >>)
             IN  ODSet(params[i - 1], modname, ODFromPairs(moditem \o parameters(inst)))
  IN  params[Len(registry)]

\* main() in listing mode, after list_modules() has the registry: the listing
\* written to the destination path or printed, with sort_keys=False.
ListModules ==
  /\ pc = "list"
  /\ LET installed_modules == list_modules(modules)
         text == Encode(installed_modules)
     IN  IF options.outfile
         THEN \E opened \in BOOLEAN, written \in 0..Len(text) :
                LET w == write_outfile(file, text, opened, written)
                IN  /\ ~opened => written = 0
                    /\ file' = w.file
                    /\ exc' = w.exc
                    /\ pc' = IF w.exc = "none" THEN "exit_ok" ELSE "exit_fail"
                    /\ log' = IF w.exc = "none" THEN log ELSE Raised(<< >>, w.exc)
                    /\ stdout' = stdout
         ELSE /\ stdout' = stdout \o Printed(text)
              /\ pc' = "exit_ok"
              /\ UNCHANGED << exc, file, log >>
  /\ UNCHANGED << options, modules, ldx, loaded, mgm_nodes, idx, output, generated,
                  calls, stored >>

-----------------------------------------------------------------------------
Next ==
  \/ Main
  \/ LoadModule
  \/ ReadInput
  \/ ProcessNode
  \/ EmitReport
  \/ ListModules

Spec == Init /\ [][Next]_vars

-----------------------------------------------------------------------------
(* Properties *)

\* Whether the dispatch loop skips `node`: it names no module, or one that is
\* not registered.
Skipped(node) == kModule \notin DOMAIN node \/ node[kModule] \notin ODKeys(modules)

\* What the run() call made for node i returned.
RunResult(i) ==
  calls[CHOOSE c \in 1..Len(calls) : calls[c].op = "run" /\ calls[c].idx = i].output

\* The records of a log at error level.
Errors(records) == SelectSeq(records, LAMBDA r : r.level = "error")

\* The text the run handed out: the destination path's content when one was
\* given, else what was printed without the line end.
Emitted ==
  IF options.outfile THEN file
  ELSE IF stdout = << >> THEN << >>
  ELSE SubSeq(stdout, 1, Len(stdout) - 1)

\* C1: a failure while processing one node (set_node raising on a missing
\* key, run raising) never aborts the batch: no exception leaves the loop while
\* nodes of the input are still unprocessed, so every later node is processed
\* and the report is emitted.
C1_NodeFailureNeverAbortsBatch ==
  (pc = "exit_fail" /\ idx >= 1) => idx = Len(mgm_nodes) + 1

\* C2: run() of every registered provider returns a mapping and never
\* propagates a collection error to the dispatch loop.
C2_RunNeverPropagates ==
  \A c \in 1..Len(calls) : calls[c].op = "run" => calls[c].exc = "none"

\* C3: a node whose `module` key is absent, or names no registered provider,
\* is skipped: the pass over it leaves the report as it was, calls neither
\* set_node nor run, logs exactly one error (naming the module when there is
\* one) and goes on to the next node.
C3_SkippedNodeContributesNothing ==
  [][ (pc = "loop" /\ idx \in 1..Len(mgm_nodes) /\ Skipped(mgm_nodes[idx])) =>
        LET node == mgm_nodes[idx]
            new  == Errors(SubSeq(log', Len(log) + 1, Len(log')))
        IN  /\ output' = output
            /\ calls' = calls
            /\ stored' = stored
            /\ idx' = idx + 1
            /\ pc' = "loop"
            /\ Len(new) = 1
            /\ kModule \in DOMAIN node => new[1].arg = node[kModule] ]_vars

\* C3's case: an input with a node without `module` and a node naming an
\* unregistered module, both passed over, and a later node stored and emitted.
C3_Witness ==
  /\ pc = "exit_ok"
  /\ \E i, j, l \in 1..Len(mgm_nodes) :
       /\ i < l /\ j < l
       /\ kModule \notin DOMAIN mgm_nodes[i]
       /\ kModule \in DOMAIN mgm_nodes[j] /\ Skipped(mgm_nodes[j])
       /\ \E s \in 1..Len(stored) : stored[s].idx = l

\* The last assignment made to key k.
LastStored(k) ==
  CHOOSE u \in 1..Len(stored) :
    stored[u].key = k /\ \A v \in (u + 1)..Len(stored) : stored[v].key # k

\* The items of the emitted text that carry key k.
EmittedItems(k) ==
  { c \in 1..Len(Emitted) : Emitted[c].t = "item" /\ Emitted[c].key = k }

\* C4: two dispatched nodes that share an id leave exactly one entry in the
\* report, and it is what run() returned for the later of them.
C4_LastWriteWins ==
  \A s, t \in 1..Len(stored) :
    (s < t /\ stored[s].key = stored[t].key) =>
      LET k     == stored[t].key
          value == RunResult(stored[LastStored(k)].idx)
      IN  /\ k \in DOMAIN output
          /\ output[k] = value
          /\ pc = "exit_ok" =>
               /\ Cardinality(EmittedItems(k)) = 1
               /\ \A c \in EmittedItems(k) : Emitted[c].val = value

\* C4's case: a report emitted after two nodes with the same id were
\* dispatched and their run() calls returned different hosts.
C4_Witness ==
  /\ pc = "exit_ok"
  /\ \E s, t \in 1..Len(stored) :
       /\ s < t
       /\ stored[s].key = stored[t].key
       /\ RunResult(stored[s].idx) # RunResult(stored[t].idx)

\* The assignments made for nodes that have no `id`.
Anonymous == { s \in 1..Len(stored) : kId \notin DOMAIN mgm_nodes[stored[s].idx] }

\* C5: every dispatched node without `id` is stored under a generated
\* identifier that no other assignment of the run uses, so k such nodes leave k
\* entries, each what run() returned for its node.
C5_GeneratedIdsDistinct ==
  /\ \A s \in Anonymous :
       LET k == stored[s].key
       IN  /\ k \in generated
           /\ \A t \in 1..Len(stored) : t # s => stored[t].key # k
           /\ k \in DOMAIN output
           /\ output[k] = RunResult(stored[s].idx)
           /\ pc = "exit_ok" =>
                /\ Cardinality(EmittedItems(k)) = 1
                /\ \A c \in EmittedItems(k) : Emitted[c].val = output[k]
  /\ Cardinality({ stored[s].key : s \in Anonymous }) = Cardinality(Anonymous)

\* C5's case: a report emitted with the entries of two nodes without `id`.
C5_Witness ==
  /\ pc = "exit_ok"
  /\ Cardinality(Anonymous) >= 2

\* The exceptions the loop of _load_modules catches and does not re-raise.
SkippedLoadErrors == {"TypeError", "AttributeError", "NotImplementedError"}

\* One pass of the discovery loop, `fatal` being the kinds of candidate that
\* abort it: a good candidate is registered, a fatal one raises out of the
\* loop, and any other is left out of the registry with one error logged that
\* names it, the loop going on with the next candidate.
DiscoveryStep(fatal) ==
  pc = "load" =>
    LET name == Candidates[ldx]
        kind == loaded'[Len(loaded')].kind
        new  == Errors(SubSeq(log', Len(log) + 1, Len(log')))
    IN  /\ Len(loaded') = Len(loaded) + 1
        /\ kind = "good" => name \in ODKeys(modules') /\ pc' # "exit_fail"
        /\ kind \in fatal => modules' = modules /\ pc' = "exit_fail" /\ exc' = kind
        /\ kind \notin fatal \cup {"good"} =>
             /\ modules' = modules
             /\ Len(new) = 1 /\ new[1].arg = name
             /\ exc' = "none"
             /\ ldx' = ldx + 1
             /\ pc' = IF ldx < Len(Candidates) THEN "load"
                      ELSE IF options.list_modules THEN "list" ELSE "read"

\* Once a candidate of a fatal kind was met the run is failing, no later
\* candidate was examined or registered, and nothing was or will be emitted.
DiscoveryAborted(fatal) ==
  \A i \in 1..Len(loaded) :
    loaded[i].kind \in fatal =>
      /\ i = Len(loaded)
      /\ pc = "exit_fail"
      /\ ODKeys(modules) \subseteq { loaded[j].name : j \in 1..(i - 1) }
      /\ file = OldContent /\ stdout = << >>

C7_FailureOnlyAfterErrorLog ==
  pc = "exit_fail" =>
    /\ log # << >>
    /\ log[Len(log)].level = "error"
    /\ log[Len(log)].msg = "exception"
    /\ log[Len(log)].arg = exc

\* A key that starts with "pass" whatever the case of its letters.
IsPassKey(key) ==
  /\ Len(key) >= 4
  /\ key[1] \in {"p", "P"}
  /\ key[2] \in {"a", "A"}
  /\ key[3] \in {"s", "S"}
  /\ key[4] \in {"s", "S"}

\* ret is the masked copy of descriptor orig.
Redacted(orig, ret) ==
  /\ DOMAIN ret = DOMAIN orig
  /\ \A key \in DOMAIN orig :
       IF IsPassKey(key) THEN ret[key] = "**secret**" ELSE ret[key] = orig[key]

\* The descriptors logged at debug verbosity, in order.
InputDumps == SelectSeq(log, LAMBDA r : r.msg = "Input Node")

\* C8: the copy logged for a node has the node's keys, the mask under every
\* key that starts with "pass" in any case and the node's own value under every
\* other key, and the descriptor then handed to set_node is the node as read.
C8_Redaction ==
  /\ \A k \in 1..Len(InputDumps) : Redacted(mgm_nodes[k], InputDumps[k].arg)
  /\ (options.verbose >= 2 /\ idx >= 1) => Len(InputDumps) >= idx - 1
  /\ \A c \in 1..Len(calls) :
       calls[c].op = "set_node" => calls[c].node = mgm_nodes[calls[c].idx]

\* C8's case: at debug verbosity a node with keys password, Pass, pas and
\* compass was logged and then accepted by set_node.
C8_Witness ==
  /\ options.verbose >= 2
  /\ \E c \in 1..Len(calls) :
       /\ calls[c].op = "set_node"
       /\ calls[c].exc = "none"
       /\ {kPassword, kPass, kPas, kCompass} \subseteq DOMAIN mgm_nodes[calls[c].idx]
       /\ Len(InputDumps) >= calls[c].idx
       /\ InputDumps[calls[c].idx].arg[kPass] = "**secret**"

\* C9: the listing of N registered providers has exactly N entries (none for
\* an empty registry), each with a `module` field equal to the key it is
\* stored under, whatever schema parameters() returns.
C9_ListingModuleMatchesKey ==
  (pc = "exit_ok" /\ options.list_modules) =>
    LET items == { c \in 1..Len(Emitted) : Emitted[c].t = "item" }
    IN  /\ Cardinality(items) = Len(modules)
        /\ { Emitted[c].key : c \in items } = ODKeys(modules)
        /\ \A c \in items :
             /\ kModule \in ODKeys(Emitted[c].val)
             /\ ODGet(Emitted[c].val, kModule) = Emitted[c].key

\* The complete text of the mode the run is in.
FullText ==
  IF options.list_modules THEN Encode(list_modules(modules))
  ELSE Encode(SortedItems(output))

\* C10: the destination path holds either what it held before the run or the
\* complete serialized output, never a part of it.
C10_WriteAllOrNothing ==
  file = OldContent \/ file = FullText


-----------------------------------------------------------------------------
(* Destination path and output stream *)

\* What a successful _run leaves at the destination path for a report:
\* json.dump(output, f, sort_keys=True, ...) into the truncated file.
PathContent(report) ==
  LET text == Encode(SortedItems(report))
  IN  write_outfile(OldContent, text, TRUE, Len(text)).file

\* What _run adds to the output stream for the same report:
\* print(json.dumps(output, sort_keys=True, ...)).
StreamContent(report) == Printed(Encode(SortedItems(report)))

\* A collection run that ended normally and whose dispatched nodes all spell
\* out their id.
EmittedWithExplicitIds ==
  /\ pc = "exit_ok"
  /\ ~options.list_modules
  /\ options.infile
  /\ Anonymous = {}

\* C11: for the same input with explicit ids and the same provider results,
\* the content written to a destination path and the content written to the
\* output stream are identical byte for byte: whichever of the two this run
\* wrote holds exactly what the other destination would hold for the report,
\* and the two serializations of the report are equal.
C11_RoundTrip ==
  EmittedWithExplicitIds =>
    /\ PathContent(output) = StreamContent(output)
    /\ options.outfile => file = StreamContent(output)
    /\ ~options.outfile => stdout = PathContent(output)

====
